---------------------------- MODULE Spec2Model ----------------------------
(***************************************************************************)
(* Model of the literature search engine of src/core.py: run_search with   *)
(* its retry wrapper safe_works_call, the keyword chunking, the text       *)
(* normaliser, the plural-tolerant keyword matcher, the candidate filter   *)
(* and aggregator, the progress callback and the final ranking.            *)
(*                                                                         *)
(* Texts (keywords, titles) are sequences of one-character strings; the    *)
(* character "sub2" stands for the subscript digit U+2082 and so on.       *)
(* An identifier (DOI) is a sequence of tokens whose first token is the    *)
(* registrant prefix, so that startswith is a real prefix test.            *)
(*                                                                         *)
(* The external metadata source (Crossref through habanero) is the         *)
(* environment: a request either fails or returns a finite list of pages,  *)
(* each page a finite list of records drawn from the records the source    *)
(* holds.  The pages are revealed record by record as the loops of         *)
(* run_search consume them.                                                *)
(***************************************************************************)
EXTENDS Integers, Sequences, FiniteSets, TLC

VARIABLES
    fn_call,               \* a direct call of one of the pure helpers: its name and arguments
    fn_ret,                \* what that call returned
    caller,                \* the call site of run_search
    year_range,            \* run_search argument
    search_filter,         \* run_search local: the filter of the latest request
    keywords,              \* run_search argument: sequence of texts
    threshold,             \* run_search argument
    output_limit,          \* run_search argument
    selected_publishers,   \* run_search argument: sequence of publisher names
    has_callback,          \* whether progress_callback was supplied
    src,                   \* environment: the profile of the metadata source
    served,                \* environment: records the source has returned so far
    once_left,             \* environment: records it returns at most once, not yet returned
    pc,                    \* control position inside run_search
    g,                     \* index of the current keyword group (kw_chunk)
    attempt,               \* safe_works_call: loop variable of the retry loop
    sleeps,                \* safe_works_call: time.sleep durations of the call in progress
    call_requests,         \* safe_works_call: cr.works invocations of the call in progress
    contacted,             \* whether cr.works has been invoked during the run
    pages_left,            \* pages of the current response not yet iterated
    in_page,               \* records of the current page already iterated
    total_checked,         \* run_search local
    relevant_papers_dict,  \* run_search local: accepted entries in insertion order
    cb_count,              \* number of progress_callback invocations
    cb_last,               \* arguments of the latest progress_callback invocation
    cb_since_item,         \* progress_callback invocations since the last record was processed
    last,                  \* the latest record iterated and what the loop body did with it
    result                 \* the returned table, or NoResult

vars == << fn_call, fn_ret, caller, year_range, search_filter, keywords, threshold, output_limit, selected_publishers, has_callback,
           src, served, once_left, pc, g, attempt, sleeps, call_requests, contacted,
           pages_left, in_page, total_checked, relevant_papers_dict,
           cb_count, cb_last, cb_since_item, last, result >>

-----------------------------------------------------------------------------
(* Program constants *)

RETRIES == 3
CHUNK_SIZE == 3
MAX_KEYWORDS == 10
SEARCH_SPACE_LIMIT == 2000
PAGE_LIMIT == 100
PROGRESS_EVERY == 20
CURSOR_MAX == SEARCH_SPACE_LIMIT \div 2

(* Bounds of the model *)

MaxThreshold == 2
MaxOutputLimit == 2
MaxPages == 2
MaxRows == 2
MaxRecords == 4
MaxChunkInput == 5
MaxTextLen == 3

-----------------------------------------------------------------------------
(* Text helpers: Python str operations on sequences of characters *)

Min(a, b) == IF a <= b THEN a ELSE b

\* str.lower() on one character
Lower(c) ==
    CASE c = "A" -> "a"
      [] c = "B" -> "b"
      [] c = "S" -> "s"
      [] OTHER -> c

\* subscript_map of normalise_text
SubscriptMap ==
    [c \in {"sub0", "sub1", "sub2", "sub3", "sub4",
            "sub5", "sub6", "sub7", "sub8", "sub9"} |->
        CASE c = "sub0" -> "0" [] c = "sub1" -> "1" [] c = "sub2" -> "2"
          [] c = "sub3" -> "3" [] c = "sub4" -> "4" [] c = "sub5" -> "5"
          [] c = "sub6" -> "6" [] c = "sub7" -> "7" [] c = "sub8" -> "8"
          [] c = "sub9" -> "9"]

FoldSubscript(c) == IF c \in DOMAIN SubscriptMap THEN SubscriptMap[c] ELSE c

normalise_text_nolower(text) ==
    IF text = << >> THEN << >>
    ELSE [i \in 1..Len(text) |-> FoldSubscript(text[i])]

normalise_text(text) ==
    IF text = << >> THEN << >>
    ELSE [i \in 1..Len(text) |-> FoldSubscript(Lower(text[i]))]

\* Python's  k in t  on strings
Contains(t, k) ==
    \E i \in 0..(Len(t) - Len(k)) : SubSeq(t, i + 1, i + Len(k)) = k

EndsWithS(k) == Len(k) > 0 /\ k[Len(k)] = "s"

check_keyword_match_exact(keyword, text) == Contains(text, keyword)

check_keyword_match(keyword, text) ==
    IF Contains(text, keyword) THEN TRUE
    ELSE IF EndsWithS(keyword) /\ Contains(text, SubSeq(keyword, 1, Len(keyword) - 1)) THEN TRUE
    ELSE IF ~EndsWithS(keyword) /\ Contains(text, Append(keyword, "s")) THEN TRUE
    ELSE FALSE

chunk_keywords_floor(kws, chunk_size) ==
    [c \in 1..(Len(kws) \div chunk_size) |->
        SubSeq(kws, (c - 1) * chunk_size + 1, c * chunk_size)]

\* chunk_keywords: the list of the chunks the generator yields
chunk_keywords(kws, chunk_size) ==
    [c \in 1..((Len(kws) + chunk_size - 1) \div chunk_size) |->
        SubSeq(kws, (c - 1) * chunk_size + 1, Min(c * chunk_size, Len(kws)))]

\* str.startswith on identifiers
StartsWith(s, p) == Len(p) <= Len(s) /\ SubSeq(s, 1, Len(p)) = p

SeqToSet(s) == {s[i] : i \in DOMAIN s}

-----------------------------------------------------------------------------
(* The request side: keyword lists, publishers *)

PUBLISHER_MAP ==
    [p \in {"ACS", "RSC", "Wiley", "Elsevier", "Springer", "Science"} |->
        CASE p = "ACS" -> << "10.1021" >>
          [] p = "RSC" -> << "10.1039" >>
          [] p = "Wiley" -> << "10.1002" >>
          [] p = "Elsevier" -> << "10.1016" >>
          [] p = "Springer" -> << "10.1007" >>
          [] p = "Science" -> << "10.1126" >>]

AllowedPrefixes(sel) == [i \in DOMAIN sel |-> PUBLISHER_MAP[sel[i]]]

KwPool == << <<"a">>, <<"b">>, <<"A">>, <<"b", "s">> >>

KwList(n) == [i \in 1..n |-> KwPool[((i - 1) % Len(KwPool)) + 1]]

\* one group, two groups, and more than MAX_KEYWORDS keywords
KeywordLens == {2, CHUNK_SIZE + 1, MAX_KEYWORDS + 1}

KeywordLists == {KwList(n) : n \in KeywordLens} \cup { << <<"a">>, <<"a">> >> }

-----------------------------------------------------------------------------
(* The source side: the records it holds and how it pages them *)

NoDoi == << >>
NoTitle == << >>

ItemNoDoi   == [doi |-> NoDoi, title |-> <<"a", "b">>, year |-> 3]
ItemAB      == [doi |-> <<"10.1021", "x">>, title |-> <<"A", "b">>, year |-> 1]
ItemABagain == [doi |-> <<"10.1021", "x">>, title |-> <<"a", "s">>, year |-> 2]
ItemBS      == [doi |-> <<"10.1039", "y">>, title |-> <<"b", "s">>, year |-> 2]
ItemNoTitle == [doi |-> <<"10.1039", "z">>, title |-> NoTitle, year |-> 1]
ItemLate    == [doi |-> <<"10.1039", "w">>, title |-> <<"b", "s">>, year |-> 3]
ItemMiss    == [doi |-> <<"10.1021", "n">>, title |-> <<"s">>, year |-> 1]
ItemHit     == [doi |-> <<"10.1021", "m">>, title |-> <<"a", "sub2", "b">>, year |-> 2]

SmallCorpus == {ItemNoDoi, ItemAB, ItemABagain, ItemBS, ItemNoTitle, ItemLate}
BigCorpus == {ItemMiss, ItemHit}
Corpus == SmallCorpus \cup BigCorpus

\* cursor_max records at PAGE_LIMIT records a page
PagesMax == CURSOR_MAX \div PAGE_LIMIT

\* a source with few records, short pages, possibly empty pages
SmallSource ==
    [rows |-> MaxRows, minRows |-> 1, pageCounts |-> 0..MaxPages,
     emptyPages |-> TRUE, corpus |-> SmallCorpus, once |-> {},
     maxRecords |-> MaxRecords]

\* a source with more records than the search space: full pages, each response
\* one page short of the cursor budget; it returns the one matching record once
BigSource ==
    [rows |-> PAGE_LIMIT, minRows |-> PAGE_LIMIT, pageCounts |-> {PagesMax - 1},
     emptyPages |-> FALSE, corpus |-> BigCorpus, once |-> {ItemHit},
     maxRecords |-> 2 * SEARCH_SPACE_LIMIT]

NoResult == "none"
NoCall == << >>
NoItem == [item |-> ItemNoDoi, outcome |-> "none"]


-----------------------------------------------------------------------------
(* The loop body of run_search, as operators *)

TooManyKeywords_offbyone(kws) == Len(kws) > MAX_KEYWORDS + 1

\* line 63
TooManyKeywords(kws) == Len(kws) > MAX_KEYWORDS

\* lines 136-140: the request keywords, in request order, that match the title
Matches(kws, title) ==
    SelectSeq(kws, LAMBDA kw :
        check_keyword_match(normalise_text(kw), normalise_text(title)))

DistinctCount(matches) == Cardinality(SeqToSet(matches))

\* line 142
Qualifies(matches, th) == DistinctCount(matches) >= th

\* line 150
MatchCount(matches) == Len(matches)

\* key in dict
HasKey(dict, key) == \E i \in DOMAIN dict : dict[i].DOI = key

AlreadyAccepted_never(doi, dict) == FALSE

\* line 116: doi in relevant_papers_dict
AlreadyAccepted(doi, dict) == HasKey(dict, doi)

PublisherOk_any(doi, sel) == TRUE

\* lines 120-122
PublisherOk(doi, sel) ==
    \/ sel = << >>
    \/ \E i \in DOMAIN sel : StartsWith(doi, AllowedPrefixes(sel)[i])

\* lines 143-152; Journal, First_Author and the always-empty Abstract are copied
\* through and read by no decision of the run, and are left out
Entry(it, matches) ==
    [DOI |-> it.doi, Title |-> it.title, Year |-> it.year,
     Matched_Keywords |-> matches, Match_Count |-> MatchCount(matches)]

\* relevant_papers_dict[doi] = entry: a new key is appended, an existing key
\* keeps its position and takes the new value
Store(dict, entry) ==
    IF HasKey(dict, entry.DOI)
    THEN [i \in DOMAIN dict |-> IF dict[i].DOI = entry.DOI THEN entry ELSE dict[i]]
    ELSE Append(dict, entry)

\* lines 154 and 157
OutputLimitReached(dict, limit) == Len(dict) >= limit

\* lines 128 and 157
OverCeiling(checked) == checked > SEARCH_SPACE_LIMIT

\* line 85
GroupLoopStops(checked) == checked >= SEARCH_SPACE_LIMIT

Counted_none(checked) == checked

\* line 124
Counted(checked) == checked + 1

ProgressDue_early(checked) == (checked + 1) % PROGRESS_EVERY = 0

\* line 125
ProgressDue(checked) == checked % PROGRESS_EVERY = 0

\* safe_works_call, lines 16-17
ShouldRetry(att) == att < RETRIES - 1

BackoffDelay_linear(att) == 2 * att

BackoffDelay(att) == 2 * (att + 1)

Before_yearasc(a, b) ==
    \/ a.Match_Count > b.Match_Count
    \/ a.Match_Count = b.Match_Count /\ a.Year < b.Year

\* lines 166-168: stable sort by Match_Count descending, then Year descending
Before(a, b) ==
    \/ a.Match_Count > b.Match_Count
    \/ a.Match_Count = b.Match_Count /\ a.Year > b.Year

InsertSorted(e, s) ==
    LET idx == {i \in DOMAIN s : Before(e, s[i])}
        pos == IF idx = {} THEN Len(s) + 1
               ELSE CHOOSE i \in idx : \A j \in idx : i <= j
    IN SubSeq(s, 1, pos - 1) \o << e >> \o SubSeq(s, pos, Len(s))

RECURSIVE SortValues(_)
SortValues(s) ==
    IF s = << >> THEN << >>
    ELSE InsertSorted(s[Len(s)], SortValues(SubSeq(s, 1, Len(s) - 1)))

Chunks == chunk_keywords(keywords, CHUNK_SIZE)

StockLeft == served < src.maxRecords

-----------------------------------------------------------------------------
(* Argument binding of a run_search call, core.py line 57 *)

\* an argument value with its Python type
NoneArg == [kind |-> "none", val |-> << >>]
ListArg(l) == [kind |-> "list", val |-> l]
IntArg(n) == [kind |-> "int", val |-> n]
PairArg(a, b) == [kind |-> "pair", val |-> << a, b >>]
FnArg(name) == [kind |-> "function", val |-> << name >>]

\* the parameter list of run_search, in order; the last three default to None
RunSearchParams ==
    << "keywords", "threshold", "output_limit",
       "year_range", "selected_publishers", "progress_callback" >>

\* a call with positional arguments and a set of << name, value >> keyword
\* arguments: positional arguments fill the parameters from the left
BindArgs(positional, named) ==
    [p \in SeqToSet(RunSearchParams) |->
        LET i == CHOOSE j \in 1..Len(RunSearchParams) : RunSearchParams[j] = p
        IN  IF i <= Len(positional) THEN positional[i]
            ELSE IF \E kv \in named : kv[1] = p
                 THEN (CHOOSE kv \in named : kv[1] = p)[2]
                 ELSE NoneArg]

\* truth value of an argument in an if
Truthy(arg) ==
    \/ arg.kind = "function"
    \/ arg.kind \in {"list", "pair"} /\ Len(arg.val) > 0
    \/ arg.kind = "int" /\ arg.val # 0

\* line 93: start_year, end_year = year_range
Unpackable(arg) == arg.kind \in {"list", "pair"} /\ Len(arg.val) = 2

\* lines 91-95
NoFilter == [type |-> "none", dated |-> FALSE, from |-> << >>, until |-> << >>]
BareFilter == [type |-> "journal-article", dated |-> FALSE, from |-> << >>, until |-> << >>]
BuildFilter(yr) ==
    IF Truthy(yr)
    THEN [type |-> "journal-article", dated |-> TRUE,
          from |-> << yr.val[1], 1, 1 >>, until |-> << yr.val[2], 12, 31 >>]
    ELSE BareFilter

\* no helper is being called on its own
NoFn == [fn |-> "none", args |-> << >>]
NoRet == [done |-> FALSE, val |-> << >>]

-----------------------------------------------------------------------------
(* Initial states: the arguments of one run_search call and the source *)

InitLocals ==
    /\ pc = "start"
    /\ g = 1
    /\ attempt = 0
    /\ sleeps = NoCall
    /\ call_requests = 0
    /\ contacted = FALSE
    /\ pages_left = 0
    /\ in_page = 0
    /\ total_checked = 0
    /\ relevant_papers_dict = << >>
    /\ cb_count = 0
    /\ cb_last = << >>
    /\ cb_since_item = 0
    /\ last = NoItem
    /\ result = NoResult
    /\ search_filter = NoFilter

\* the state of a run_search call at its entry
Called(site, bound, source) ==
    /\ caller = site
    /\ keywords = bound["keywords"].val
    /\ threshold = bound["threshold"].val
    /\ output_limit = bound["output_limit"].val
    /\ year_range = bound["year_range"]
    /\ selected_publishers =
          IF Truthy(bound["selected_publishers"])
          THEN bound["selected_publishers"].val ELSE << >>
    /\ has_callback = Truthy(bound["progress_callback"])
    /\ src = source

\* doi.py line 54: four positional arguments
InitConsole ==
    \E kws \in { KwList(2), KwList(MAX_KEYWORDS + 1) }, th \in 1..MaxThreshold :
        Called("console",
               BindArgs(<< ListArg(kws), IntArg(th), IntArg(MaxOutputLimit),
                           FnArg("progress_callback") >>, {}),
               SmallSource)

\* app.py lines 156-163: three positional and three keyword arguments
InitApp ==
    \E th \in 1..MaxThreshold, limit \in 1..MaxOutputLimit,
       pubs \in { << >>, << "ACS" >> } :
        Called("app",
               BindArgs(<< ListArg(KwList(2)), IntArg(th), IntArg(limit) >>,
                        { << "year_range", PairArg(1, 2) >>,
                          << "selected_publishers", ListArg(pubs) >>,
                          << "progress_callback", FnArg("update_progress") >> }),
               SmallSource)

InitSmall ==
    /\ caller = "direct"
    /\ year_range = NoneArg
    /\ keywords \in KeywordLists
    /\ threshold \in 1..MaxThreshold
    /\ output_limit \in 1..MaxOutputLimit
    /\ selected_publishers \in { << >>, << "ACS" >>, << "Wiley", "ACS" >> }
    /\ has_callback \in BOOLEAN
    /\ src = SmallSource

InitBig ==
    /\ caller = "direct"
    /\ year_range = NoneArg
    /\ keywords = KwList(MAX_KEYWORDS)
    /\ threshold = 1
    /\ output_limit = MaxOutputLimit
    /\ selected_publishers = << >>
    /\ has_callback = TRUE
    /\ src = BigSource

Init ==
    /\ InitSmall \/ InitBig \/ InitConsole \/ InitApp
    /\ fn_call = NoFn
    /\ fn_ret = NoRet
    /\ served = 0
    /\ once_left = src.once
    /\ InitLocals

-----------------------------------------------------------------------------
(* Actions *)

\* lines 61-69
Validate ==
    /\ pc = "start"
    /\ pc' = IF TooManyKeywords(keywords) THEN "invalid" ELSE "group"
    /\ UNCHANGED << fn_call, fn_ret, caller, year_range, search_filter,
                    keywords, threshold, output_limit, selected_publishers,
                    has_callback, src, served, once_left, g, attempt, sleeps, call_requests,
                    contacted, pages_left, in_page, total_checked,
                    relevant_papers_dict, cb_count, cb_last, cb_since_item,
                    last, result >>

\* line 84: the chunk generator is exhausted
GroupsExhausted ==
    /\ pc = "group"
    /\ g > Len(Chunks)
    /\ pc' = "finish"
    /\ UNCHANGED << fn_call, fn_ret, caller, year_range, search_filter,
                    keywords, threshold, output_limit, selected_publishers,
                    has_callback, src, served, once_left, g, attempt, sleeps, call_requests,
                    contacted, pages_left, in_page, total_checked,
                    relevant_papers_dict, cb_count, cb_last, cb_since_item,
                    last, result >>

\* lines 85-86
GroupCeilingBreak ==
    /\ pc = "group"
    /\ g <= Len(Chunks)
    /\ GroupLoopStops(total_checked)
    /\ pc' = "finish"
    /\ UNCHANGED << fn_call, fn_ret, caller, year_range, search_filter,
                    keywords, threshold, output_limit, selected_publishers,
                    has_callback, src, served, once_left, g, attempt, sleeps, call_requests,
                    contacted, pages_left, in_page, total_checked,
                    relevant_papers_dict, cb_count, cb_last, cb_since_item,
                    last, result >>

\* lines 88-98: enter safe_works_call for the group
BeginGroup ==
    /\ pc = "group"
    /\ g <= Len(Chunks)
    /\ ~GroupLoopStops(total_checked)
    /\ Truthy(year_range) => Unpackable(year_range)
    /\ search_filter' = BuildFilter(year_range)
    /\ pc' = "call"
    /\ attempt' = 0
    /\ sleeps' = << >>
    /\ call_requests' = 0
    /\ UNCHANGED << fn_call, fn_ret, caller, year_range,
                    keywords, threshold, output_limit, selected_publishers,
                    has_callback, src, served, once_left, g, contacted, pages_left, in_page,
                    total_checked, relevant_papers_dict, cb_count, cb_last,
                    cb_since_item, last, result >>

\* line 93: a year_range that is not a pair cannot be unpacked; the TypeError
\* is raised outside the try of lines 97-160 and leaves run_search
YearRangeUnpackFails ==
    /\ pc = "group"
    /\ g <= Len(Chunks)
    /\ ~GroupLoopStops(total_checked)
    /\ Truthy(year_range) /\ ~Unpackable(year_range)
    /\ search_filter' = BareFilter
    /\ pc' = "type_error"
    /\ UNCHANGED << fn_call, fn_ret, caller, year_range,
                    keywords, threshold, output_limit, selected_publishers,
                    has_callback, src, served, once_left, g, attempt, sleeps,
                    call_requests, contacted, pages_left, in_page,
                    total_checked, relevant_papers_dict, cb_count, cb_last,
                    cb_since_item, last, result >>

\* safe_works_call, line 14: cr.works returns the list of pages
AttemptOk ==
    /\ pc = "call"
    /\ contacted' = TRUE
    /\ \E n \in src.pageCounts : pages_left' = n
    \* the call returns: its locals are gone
    /\ attempt' = 0
    /\ sleeps' = NoCall
    /\ call_requests' = 0
    /\ pc' = "page"
    /\ UNCHANGED << fn_call, fn_ret, caller, year_range, search_filter,
                    keywords, threshold, output_limit, selected_publishers,
                    has_callback, src, served, once_left, g, in_page,
                    total_checked, relevant_papers_dict, cb_count, cb_last,
                    cb_since_item, last, result >>

\* as AttemptFail, but the last failure is swallowed and the group yields nothing
AttemptFail_swallow ==
    /\ pc = "call"
    /\ contacted' = TRUE
    /\ call_requests' = call_requests + 1
    /\ IF ShouldRetry(attempt)
       THEN /\ sleeps' = Append(sleeps, BackoffDelay(attempt))
            /\ attempt' = attempt + 1
            /\ pc' = "call"
            /\ g' = g
       ELSE /\ pc' = "group"
            /\ g' = g + 1
            /\ UNCHANGED << sleeps, attempt >>
    /\ UNCHANGED << fn_call, fn_ret, caller, year_range, search_filter,
                    keywords, threshold, output_limit, selected_publishers,
                    has_callback, src, served, once_left, pages_left, in_page,
                    total_checked, relevant_papers_dict, cb_count, cb_last,
                    cb_since_item, last, result >>

\* safe_works_call, lines 15-19: cr.works raises
AttemptFail ==
    /\ pc = "call"
    /\ contacted' = TRUE
    /\ call_requests' = call_requests + 1
    /\ IF ShouldRetry(attempt)
       THEN /\ sleeps' = Append(sleeps, BackoffDelay(attempt))
            /\ attempt' = attempt + 1
            /\ pc' = "call"
       ELSE /\ pc' = "raised"
            /\ UNCHANGED << sleeps, attempt >>
    /\ UNCHANGED << fn_call, fn_ret, caller, year_range, search_filter,
                    keywords, threshold, output_limit, selected_publishers,
                    has_callback, src, served, once_left, g, pages_left, in_page,
                    total_checked, relevant_papers_dict, cb_count, cb_last,
                    cb_since_item, last, result >>

\* line 109: the response has no further page
PagesExhausted ==
    /\ pc = "page"
    /\ pages_left = 0
    /\ pc' = "group"
    /\ g' = g + 1
    /\ UNCHANGED << fn_call, fn_ret, caller, year_range, search_filter,
                    keywords, threshold, output_limit, selected_publishers,
                    has_callback, src, served, once_left, attempt, sleeps, call_requests,
                    contacted, pages_left, in_page, total_checked,
                    relevant_papers_dict, cb_count, cb_last, cb_since_item,
                    last, result >>

\* as EmptyPage, but the empty page is passed over and the next page is read
EmptyPage_continue ==
    /\ pc = "page"
    /\ pages_left > 0
    /\ src.emptyPages \/ ~StockLeft
    /\ pages_left' = pages_left - 1
    /\ pc' = "page"
    /\ g' = g
    /\ UNCHANGED << fn_call, fn_ret, caller, year_range, search_filter,
                    keywords, threshold, output_limit, selected_publishers,
                    has_callback, src, served, once_left, attempt, sleeps, call_requests,
                    contacted, in_page, total_checked, relevant_papers_dict,
                    cb_count, cb_last, cb_since_item, last, result >>

\* lines 110-112: a page without items ends the group
EmptyPage ==
    /\ pc = "page"
    /\ pages_left > 0
    /\ src.emptyPages \/ ~StockLeft
    /\ pages_left' = pages_left - 1
    /\ pc' = "group"
    /\ g' = g + 1
    /\ UNCHANGED << fn_call, fn_ret, caller, year_range, search_filter,
                    keywords, threshold, output_limit, selected_publishers,
                    has_callback, src, served, once_left, attempt, sleeps, call_requests,
                    contacted, in_page, total_checked, relevant_papers_dict,
                    cb_count, cb_last, cb_since_item, last, result >>

\* lines 110-114: a page with items
BeginPage ==
    /\ pc = "page"
    /\ pages_left > 0
    /\ StockLeft
    /\ pages_left' = pages_left - 1
    /\ in_page' = 0
    /\ pc' = "item"
    /\ UNCHANGED << fn_call, fn_ret, caller, year_range, search_filter,
                    keywords, threshold, output_limit, selected_publishers,
                    has_callback, src, served, once_left, g, attempt, sleeps, call_requests,
                    contacted, total_checked, relevant_papers_dict, cb_count,
                    cb_last, cb_since_item, last, result >>

\* as ItemStep, but a record without title is skipped before it is counted
ItemStep_countlate(it, checked, dict) ==
    IF it.doi = NoDoi THEN
        [outcome |-> "nodoi", checked |-> checked, dict |-> dict, counted |-> FALSE, brk |-> FALSE]
    ELSE IF AlreadyAccepted(it.doi, dict) THEN
        [outcome |-> "dup", checked |-> checked, dict |-> dict, counted |-> FALSE, brk |-> FALSE]
    ELSE IF ~PublisherOk(it.doi, selected_publishers) THEN
        [outcome |-> "publisher", checked |-> checked, dict |-> dict, counted |-> FALSE, brk |-> FALSE]
    ELSE IF OverCeiling(Counted(checked)) THEN
        [outcome |-> "ceiling", checked |-> Counted(checked), dict |-> dict, counted |-> TRUE, brk |-> TRUE]
    ELSE IF it.title = NoTitle THEN
        [outcome |-> "notitle", checked |-> checked, dict |-> dict, counted |-> FALSE, brk |-> FALSE]
    ELSE
        LET matches == Matches(keywords, it.title)
            ok == Qualifies(matches, threshold)
            d2 == IF ok THEN Store(dict, Entry(it, matches)) ELSE dict
        IN [outcome |-> IF ok THEN "accepted" ELSE "rejected",
            checked |-> Counted(checked), dict |-> d2, counted |-> TRUE,
            brk |-> OutputLimitReached(d2, output_limit)]

\* what lines 114-155 do with one record: the outcome, the new counter, the new
\* dictionary and whether the record loop is left by break
ItemStep(it, checked, dict) ==
    IF it.doi = NoDoi THEN
        [outcome |-> "nodoi", checked |-> checked, dict |-> dict, counted |-> FALSE, brk |-> FALSE]
    ELSE IF AlreadyAccepted(it.doi, dict) THEN
        [outcome |-> "dup", checked |-> checked, dict |-> dict, counted |-> FALSE, brk |-> FALSE]
    ELSE IF ~PublisherOk(it.doi, selected_publishers) THEN
        [outcome |-> "publisher", checked |-> checked, dict |-> dict, counted |-> FALSE, brk |-> FALSE]
    ELSE IF OverCeiling(Counted(checked)) THEN
        [outcome |-> "ceiling", checked |-> Counted(checked), dict |-> dict, counted |-> TRUE, brk |-> TRUE]
    ELSE IF it.title = NoTitle THEN
        [outcome |-> "notitle", checked |-> Counted(checked), dict |-> dict, counted |-> TRUE, brk |-> FALSE]
    ELSE
        LET matches == Matches(keywords, it.title)
            ok == Qualifies(matches, threshold)
            d2 == IF ok THEN Store(dict, Entry(it, matches)) ELSE dict
        IN [outcome |-> IF ok THEN "accepted" ELSE "rejected",
            checked |-> Counted(checked), dict |-> d2, counted |-> TRUE,
            brk |-> OutputLimitReached(d2, output_limit)]

\* lines 114-158: one iteration of the record loop
ProcessItem(it) ==
    /\ pc = "item"
    /\ it \in src.corpus
    /\ it \in src.once => it \in once_left
    /\ StockLeft
    /\ in_page < src.rows
    /\ LET r == ItemStep(it, total_checked, relevant_papers_dict)
           called == r.counted /\ has_callback /\ ProgressDue(r.checked)
       IN /\ served' = served + 1
          /\ once_left' = once_left \ {it}
          /\ in_page' = in_page + 1
          /\ total_checked' = r.checked
          /\ relevant_papers_dict' = r.dict
          /\ cb_count' = IF called THEN cb_count + 1 ELSE cb_count
          /\ cb_last' = IF called THEN << r.checked, Len(relevant_papers_dict) >>
                        ELSE cb_last
          /\ cb_since_item' = 0
          /\ last' = [item |-> it, outcome |-> r.outcome]
          \* a break of the record loop reaches line 157, whose condition then holds
          /\ IF r.brk
             THEN pc' = "group" /\ g' = g + 1
             ELSE pc' = "item" /\ g' = g
    /\ UNCHANGED << fn_call, fn_ret, caller, year_range, search_filter,
                    keywords, threshold, output_limit, selected_publishers,
                    has_callback, src, attempt, sleeps, call_requests, contacted,
                    pages_left, result >>

\* lines 114 and 157-158: the page has no further record
EndPage ==
    /\ pc = "item"
    /\ in_page >= 1
    /\ in_page >= src.minRows \/ ~StockLeft
    /\ IF OutputLimitReached(relevant_papers_dict, output_limit) \/ OverCeiling(total_checked)
       THEN pc' = "group" /\ g' = g + 1
       ELSE pc' = "page" /\ g' = g
    /\ UNCHANGED << fn_call, fn_ret, caller, year_range, search_filter,
                    keywords, threshold, output_limit, selected_publishers,
                    has_callback, src, served, once_left, attempt, sleeps, call_requests,
                    contacted, pages_left, in_page, total_checked,
                    relevant_papers_dict, cb_count, cb_last, cb_since_item,
                    last, result >>

\* as Finish, but the final progress report is skipped when nothing was examined
Finish_skipzero ==
    /\ pc = "finish"
    /\ LET called == has_callback /\ total_checked > 0
       IN /\ cb_count' = IF called THEN cb_count + 1 ELSE cb_count
          /\ cb_last' = IF called THEN << total_checked, Len(relevant_papers_dict) >>
                        ELSE cb_last
          /\ cb_since_item' = IF called THEN cb_since_item + 1 ELSE cb_since_item
    /\ result' = SortValues(relevant_papers_dict)
    /\ pc' = "returned"
    /\ UNCHANGED << fn_call, fn_ret, caller, year_range, search_filter,
                    keywords, threshold, output_limit, selected_publishers,
                    has_callback, src, served, once_left, g, attempt, sleeps, call_requests,
                    contacted, pages_left, in_page, total_checked,
                    relevant_papers_dict, last >>

\* lines 163-170
Finish ==
    /\ pc = "finish"
    /\ cb_count' = IF has_callback THEN cb_count + 1 ELSE cb_count
    /\ cb_last' = IF has_callback THEN << total_checked, Len(relevant_papers_dict) >>
                  ELSE cb_last
    /\ cb_since_item' = IF has_callback THEN cb_since_item + 1 ELSE cb_since_item
    /\ result' = SortValues(relevant_papers_dict)
    /\ pc' = "returned"
    /\ UNCHANGED << fn_call, fn_ret, caller, year_range, search_filter,
                    keywords, threshold, output_limit, selected_publishers,
                    has_callback, src, served, once_left, g, attempt, sleeps, call_requests,
                    contacted, pages_left, in_page, total_checked,
                    relevant_papers_dict, last >>

Next ==
    \/ Validate
    \/ GroupsExhausted
    \/ GroupCeilingBreak
    \/ BeginGroup
    \/ AttemptOk
    \/ AttemptFail
    \/ PagesExhausted
    \/ EmptyPage
    \/ BeginPage
    \/ \E it \in Corpus : ProcessItem(it)
    \/ EndPage
    \/ Finish
    \/ YearRangeUnpackFails

Spec == Init /\ [][Next]_vars

\* run_search runs on one thread and every call it makes returns or raises: a step
\* that can be taken is taken
FairSpec == Spec /\ WF_vars(Next)

-----------------------------------------------------------------------------
(* The helpers called on their own: chunk_keywords, normalise_text,
   check_keyword_match *)

SeqsUpTo(S, n) == UNION { [1..k -> S] : k \in 0..n }

\* keywords of the lists given to chunk_keywords
ChunkWords == { << "a" >>, << "b" >>, << "b", "s" >> }
\* characters of raw texts: letters of both cases, a subscript digit, a digit
RawChars == { "a", "A", "S", "sub2", "2" }
\* characters of normalised texts
NormalChars == { "a", "b", "s" }

ChunkCalls ==
    { [fn |-> "chunk_keywords", args |-> << kws, n >>] :
        kws \in SeqsUpTo(ChunkWords, MaxChunkInput), n \in 1..CHUNK_SIZE }
NormaliseCalls ==
    { [fn |-> "normalise_text", args |-> << text >>] :
        text \in SeqsUpTo(RawChars, MaxTextLen) }
MatchCalls ==
    { [fn |-> "check_keyword_match", args |-> << k, t >>] :
        k \in SeqsUpTo(NormalChars, MaxTextLen - 1),
        t \in SeqsUpTo(NormalChars, MaxTextLen) }

\* one call of a helper is pending; run_search is not running
InitPure ==
    /\ fn_call \in ChunkCalls \cup NormaliseCalls \cup MatchCalls
    /\ fn_ret = NoRet
    /\ caller = "none"
    /\ year_range = NoneArg
    /\ search_filter = NoFilter
    /\ keywords = << >>
    /\ threshold = 1
    /\ output_limit = 1
    /\ selected_publishers = << >>
    /\ has_callback = FALSE
    /\ src = SmallSource
    /\ served = 0
    /\ once_left = {}
    /\ pc = "idle"
    /\ g = 1
    /\ attempt = 0
    /\ sleeps = NoCall
    /\ call_requests = 0
    /\ contacted = FALSE
    /\ pages_left = 0
    /\ in_page = 0
    /\ total_checked = 0
    /\ relevant_papers_dict = << >>
    /\ cb_count = 0
    /\ cb_last = << >>
    /\ cb_since_item = 0
    /\ last = NoItem
    /\ result = NoResult

Returns(fn, value) ==
    /\ fn_call.fn = fn
    /\ ~fn_ret.done
    /\ fn_ret' = [done |-> TRUE, val |-> value]
    /\ UNCHANGED << fn_call, caller, year_range, search_filter,
                    keywords, threshold, output_limit, selected_publishers,
                    has_callback, src, served, once_left, pc, g, attempt, sleeps,
                    call_requests, contacted, pages_left, in_page,
                    total_checked, relevant_papers_dict, cb_count, cb_last,
                    cb_since_item, last, result >>

CallChunkKeywords ==
    Returns("chunk_keywords", chunk_keywords(fn_call.args[1], fn_call.args[2]))

CallNormaliseText ==
    Returns("normalise_text", normalise_text(fn_call.args[1]))

CallCheckKeywordMatch ==
    Returns("check_keyword_match",
            check_keyword_match(fn_call.args[1], fn_call.args[2]))

NextPure ==
    \/ CallChunkKeywords
    \/ CallNormaliseText
    \/ CallCheckKeywordMatch

PureSpec == InitPure /\ [][NextPure]_vars

-----------------------------------------------------------------------------
(* Properties of run_search, claim by claim *)

\* C1: the table run_search returns has at most output_limit entries.
C1_OutputBound == pc = "returned" => Len(result) <= output_limit

\* C2: once the accepted count has reached the output limit, or the total examined
\* has exceeded the ceiling, no further request is issued to the source, no further
\* record is taken from it, and the counter and the accepted set stay as they are.
StopReached ==
    /\ pc \notin {"start", "invalid"}
    /\ \/ Len(relevant_papers_dict) >= output_limit
       \/ total_checked > SEARCH_SPACE_LIMIT

C2_StopsEntirely ==
    [][StopReached =>
          /\ pc # "call"
          /\ served' = served
          /\ total_checked' = total_checked
          /\ relevant_papers_dict' = relevant_papers_dict]_vars

\* C3: the total examined counter, and every examined value reported to the
\* progress callback, is at most the ceiling of 2000.
C3_CeilingCap ==
    /\ total_checked <= SEARCH_SPACE_LIMIT
    /\ cb_last # << >> => cb_last[1] <= SEARCH_SPACE_LIMIT

\* C4: the match count stored with an accepted candidate is the number of distinct
\* request keywords that match its normalised title.
C4_StoredCountDistinct ==
    \A i \in DOMAIN relevant_papers_dict :
        relevant_papers_dict[i].Match_Count =
            Cardinality({k \in SeqToSet(keywords) :
                check_keyword_match(normalise_text(k),
                                    normalise_text(relevant_papers_dict[i].Title))})

\* C5: every accepted candidate has a match count of at least the threshold, and a
\* record that was counted as examined, has a title and was not accepted matches
\* fewer distinct keywords than the threshold.
C5_ThresholdExact ==
    /\ \A i \in DOMAIN relevant_papers_dict :
          relevant_papers_dict[i].Match_Count >= threshold
    /\ (/\ last.outcome \in {"ceiling", "rejected"}
        /\ last.item.title # NoTitle)
       => Cardinality({k \in SeqToSet(keywords) :
              check_keyword_match(normalise_text(k),
                                  normalise_text(last.item.title))}) < threshold

\* C6: the accepted set holds at most one entry per identifier; an entry is built
\* from the record whose acceptance added it, a record whose identifier is already
\* accepted changes nothing, no later step changes or removes an entry, and the
\* returned table holds exactly the accepted entries.
UniqueDois(dict) ==
    \A i, j \in DOMAIN dict : dict[i].DOI = dict[j].DOI => i = j

C6_DedupFirstSeen ==
    [][/\ UniqueDois(relevant_papers_dict')
       /\ \A i \in DOMAIN relevant_papers_dict :
             /\ i \in DOMAIN relevant_papers_dict'
             /\ relevant_papers_dict'[i] = relevant_papers_dict[i]
       /\ \A it \in Corpus :
             ProcessItem(it) =>
                /\ HasKey(relevant_papers_dict, it.doi)
                      => relevant_papers_dict' = relevant_papers_dict
                /\ relevant_papers_dict' # relevant_papers_dict
                      => /\ Len(relevant_papers_dict') = Len(relevant_papers_dict) + 1
                         /\ relevant_papers_dict'[Len(relevant_papers_dict')].DOI = it.doi
                         /\ relevant_papers_dict'[Len(relevant_papers_dict')].Title = it.title
       /\ pc' = "returned" =>
             /\ Len(result') = Len(relevant_papers_dict')
             /\ SeqToSet(result') = SeqToSet(relevant_papers_dict')]_vars

\* a record was skipped because its identifier was already accepted with other data
C6_Witness ==
    /\ last.outcome = "dup"
    /\ \E i \in DOMAIN relevant_papers_dict :
          /\ relevant_papers_dict[i].DOI = last.item.doi
          /\ relevant_papers_dict[i].Title # last.item.title

\* C7: when the request of a keyword group fails on all RETRIES attempts, run_search
\* raises and returns no table, also when earlier groups have accepted candidates.
C7_FailureRaises ==
    [][/\ (pc = "call" /\ call_requests' = RETRIES) => pc' = "raised"
       /\ pc' = "raised" => result' = NoResult
       /\ pc = "raised" => pc' = "raised"]_vars

\* the third attempt of a later group failed after candidates had been accepted
C7_Witness ==
    /\ pc = "raised"
    /\ g > 1
    /\ Len(relevant_papers_dict) > 0
    /\ result = NoResult

\* C8: safe_works_call makes at most RETRIES attempts, each one after the failure of
\* the one before; it sleeps 2 seconds after the first failure and 4 after the
\* second, and raises after the third failure without sleeping again.
C8_RetryPolicy ==
    /\ call_requests <= RETRIES
    /\ pc = "call" =>
          /\ attempt < RETRIES
          /\ call_requests = attempt
          /\ sleeps = SubSeq(<< 2, 4 >>, 1, attempt)
    /\ pc = "raised" =>
          /\ call_requests = RETRIES
          /\ sleeps = << 2, 4 >>

\* the third attempt is about to be made, after both sleeps
C8_Witness ==
    /\ pc = "call"
    /\ call_requests = RETRIES - 1
    /\ sleeps = << 2, 4 >>

\* C9: with more than MAX_KEYWORDS keywords run_search fails with the validation
\* error, and neither a request nor a progress callback has happened.
C9_ValidationFirst ==
    Len(keywords) > MAX_KEYWORDS =>
        /\ pc \in {"start", "invalid"}
        /\ ~contacted
        /\ served = 0
        /\ cb_count = 0
        /\ result = NoResult

C9_Witness == pc = "invalid" /\ Len(keywords) = MAX_KEYWORDS + 1

\* C10: when run_search returns and a progress callback was supplied, the callback
\* has been invoked exactly once after the last record was processed, with the
\* final counts; when the source returned no record at all the table is empty and
\* that single invocation, with (0, 0), is the only one.
C10_FinalCallback ==
    (pc = "returned" /\ has_callback) =>
        /\ cb_since_item = 1
        /\ cb_last = << total_checked, Len(relevant_papers_dict) >>
        /\ served = 0 =>
              /\ result = << >>
              /\ cb_count = 1
              /\ cb_last = << 0, 0 >>

\* returned after the ceiling stopped the run, with earlier progress reports
C10_Witness ==
    /\ pc = "returned"
    /\ has_callback
    /\ total_checked > SEARCH_SPACE_LIMIT
    /\ cb_count > 1

\* C11: the returned table is ordered by match count, non-increasing, and among
\* equal match counts by year, non-increasing; entries equal in both stand in the
\* order of their acceptance, and the table holds the accepted entries unchanged.
PositionIn(dict, e) == CHOOSE k \in DOMAIN dict : dict[k] = e

C11_Ranked ==
    pc = "returned" =>
        /\ \A i, j \in DOMAIN result :
              i < j =>
                 \/ result[i].Match_Count > result[j].Match_Count
                 \/ /\ result[i].Match_Count = result[j].Match_Count
                    /\ result[i].Year > result[j].Year
                 \/ /\ result[i].Match_Count = result[j].Match_Count
                    /\ result[i].Year = result[j].Year
                    /\ PositionIn(relevant_papers_dict, result[i])
                          < PositionIn(relevant_papers_dict, result[j])
        /\ Len(result) = Len(relevant_papers_dict)
        /\ SeqToSet(result) = SeqToSet(relevant_papers_dict)

\* the ranking moved an entry by year alone and kept two equal entries in order
C11_Witness ==
    /\ pc = "returned"
    /\ result # relevant_papers_dict
    /\ \E i, j \in DOMAIN result :
          /\ i < j
          /\ result[i].Match_Count = result[j].Match_Count
          /\ result[i].Year > result[j].Year
          /\ PositionIn(relevant_papers_dict, result[i])
                > PositionIn(relevant_papers_dict, result[j])
    /\ \E i, j \in DOMAIN result :
          /\ i < j
          /\ result[i].Match_Count = result[j].Match_Count
          /\ result[i].Year = result[j].Year

\* C12: with a publisher filter active every accepted identifier starts with the
\* registered prefix of a selected publisher, and a record whose identifier has no
\* selected prefix leaves the counter and the accepted set alone whatever its title
\* matches; with no publisher selected no record is skipped for its prefix.
HasSelectedPrefix(doi) ==
    \E i \in DOMAIN selected_publishers :
        LET prefix == PUBLISHER_MAP[selected_publishers[i]]
        IN /\ Len(doi) >= Len(prefix)
           /\ \A k \in DOMAIN prefix : doi[k] = prefix[k]

C12_PublisherFilter ==
    [][/\ selected_publishers # << >> =>
             \A i \in DOMAIN relevant_papers_dict' :
                 HasSelectedPrefix(relevant_papers_dict'[i].DOI)
       /\ \A it \in Corpus :
             (/\ ProcessItem(it)
              /\ it.doi # NoDoi
              /\ ~HasKey(relevant_papers_dict, it.doi))
             => /\ (selected_publishers # << >> /\ ~HasSelectedPrefix(it.doi))
                      => /\ last'.outcome = "publisher"
                         /\ total_checked' = total_checked
                         /\ relevant_papers_dict' = relevant_papers_dict
                /\ (selected_publishers = << >> \/ HasSelectedPrefix(it.doi))
                      => last'.outcome # "publisher"]_vars

\* with ACS selected an RSC record whose title matches enough keywords was skipped
C12_Witness ==
    /\ selected_publishers = << "ACS" >>
    /\ last.outcome = "publisher"
    /\ last.item.doi[1] = "10.1039"
    /\ Cardinality({k \in SeqToSet(keywords) :
           check_keyword_match(normalise_text(k), normalise_text(last.item.title))})
          >= threshold

\* C16: the total examined counter goes up by one for a record that has an
\* identifier, is not yet accepted and passes the publisher filter, with or without
\* a title, and stays as it is for every other record and in every other step.
Countable(it) ==
    /\ it.doi # NoDoi
    /\ \A i \in DOMAIN relevant_papers_dict : relevant_papers_dict[i].DOI # it.doi
    /\ selected_publishers = << >> \/ HasSelectedPrefix(it.doi)

C16_CountedExactly ==
    [][/\ \A it \in Corpus :
             ProcessItem(it) =>
                total_checked' = total_checked + (IF Countable(it) THEN 1 ELSE 0)
       /\ (\A it \in Corpus : ~ProcessItem(it)) => total_checked' = total_checked]_vars

\* a record without title was counted after other records had been skipped uncounted
C16_Witness ==
    /\ last.outcome = "notitle"
    /\ total_checked >= 1
    /\ served > total_checked

\* C17: with a progress callback supplied, it is invoked during the run exactly when
\* the total examined counter reaches a multiple of PROGRESS_EVERY, with that value
\* and the number accepted so far, and once more on return: floor(n / 20) + 1
\* invocations for a final count n, the examined values never going down.
C17_ProgressEvery20 ==
    [][/\ ~has_callback => cb_count' = 0
       /\ has_callback =>
             /\ cb_count' = (total_checked' \div PROGRESS_EVERY)
                               + (IF pc' = "returned" THEN 1 ELSE 0)
             /\ \A it \in Corpus :
                   ProcessItem(it) =>
                      IF total_checked' # total_checked
                            /\ total_checked' % PROGRESS_EVERY = 0
                      THEN /\ cb_count' = cb_count + 1
                           /\ cb_last' = << total_checked', Len(relevant_papers_dict) >>
                      ELSE /\ cb_count' = cb_count
                           /\ cb_last' = cb_last
             /\ (cb_last # << >> /\ cb_last' # << >>) => cb_last'[1] >= cb_last[1]]_vars

\* a run returned after several progress reports made during the loops
C17_Witness ==
    /\ pc = "returned"
    /\ has_callback
    /\ total_checked >= 2 * PROGRESS_EVERY
    /\ cb_count >= 3
    /\ cb_last[2] > 0

\* C19: the accepted count never exceeds the total examined count, in the state and
\* in the values given to the progress callback, and neither counter decreases.
C19_AcceptedWithinExamined ==
    [][/\ Len(relevant_papers_dict') <= total_checked'
       /\ total_checked' >= total_checked
       /\ Len(relevant_papers_dict') >= Len(relevant_papers_dict)
       /\ cb_last' # << >> => cb_last'[2] <= cb_last'[1]]_vars

\* some records accepted, more examined, and both reported to the callback
C19_Witness ==
    /\ Len(relevant_papers_dict) >= 2
    /\ total_checked > Len(relevant_papers_dict)
    /\ cb_last # << >>
    /\ cb_last[2] >= 2

\* C18: run_search terminates, by returning a table or by raising; a page without
\* items ends the current keyword group at once, its later pages unread, and the run
\* goes on to the request of the next group unless the ceiling stops it.
Done == pc \in {"returned", "raised", "invalid", "type_error"}

C18_Terminates ==
    /\ <>Done
    /\ [][(pc = "page" /\ pages_left > 0 /\ pc' # "item") =>
             /\ pc' = "group"
             /\ g' = g + 1
             /\ served' = served
             /\ total_checked' = total_checked]_vars
    /\ (pc = "group" /\ g > 1 /\ g <= Len(Chunks)
          /\ total_checked < SEARCH_SPACE_LIMIT) ~> (pc = "call")

\* the first group ended on an empty page with a page still unread, a group remains
C18_Witness ==
    /\ pc = "group"
    /\ g = 2
    /\ g <= Len(Chunks)
    /\ served = 0
    /\ pages_left > 0


-----------------------------------------------------------------------------
RECURSIVE Concat(_)
Concat(groups) ==
    IF Len(groups) = 0 THEN << >> ELSE groups[1] \o Concat(Tail(groups))

\* the positions of the keyword list that group c covers
Covered(groups, c) ==
    LET before == Len(Concat(SubSeq(groups, 1, c - 1)))
    IN  (before + 1)..(before + Len(groups[c]))

\* C13: chunk_keywords partitions the keyword list into contiguous groups of at
\* most chunk_size keywords: the groups concatenated in order are the list, every
\* position is in exactly one group, no group is empty, and only the last group
\* may hold fewer than chunk_size keywords.
C13_Partition ==
    (fn_call.fn = "chunk_keywords" /\ fn_ret.done) =>
        LET kws == fn_call.args[1]
            n == fn_call.args[2]
            groups == fn_ret.val
        IN  /\ Concat(groups) = kws
            /\ \A p \in DOMAIN kws :
                   Cardinality({ c \in DOMAIN groups : p \in Covered(groups, c) }) = 1
            /\ \A c \in DOMAIN groups :
                   /\ Len(groups[c]) >= 1
                   /\ Len(groups[c]) <= n
                   /\ c < Len(groups) => Len(groups[c]) = n

\* five keywords in groups of three: a full group and a smaller last one
C13_Witness ==
    /\ fn_call.fn = "chunk_keywords" /\ fn_ret.done
    /\ Len(fn_call.args[1]) = 5 /\ fn_call.args[2] = CHUNK_SIZE
    /\ Len(fn_ret.val) = 2 /\ Len(fn_ret.val[2]) = 2

\* k occurs in t as a run of consecutive characters
Sub(t, k) ==
    \E i \in 0..Len(t) :
        /\ i + Len(k) <= Len(t)
        /\ \A j \in 1..Len(k) : t[i + j] = k[j]

\* C14: for a normalised keyword k and title t, check_keyword_match(k, t) is true
\* exactly when k occurs in t, or k ends in s and k without that s occurs in t,
\* or k does not end in s and k followed by s occurs in t.
C14_MatchRule ==
    (fn_call.fn = "check_keyword_match" /\ fn_ret.done) =>
        LET k == fn_call.args[1]
            t == fn_call.args[2]
            plural == Len(k) > 0 /\ k[Len(k)] = "s"
        IN  fn_ret.val =
              (\/ Sub(t, k)
               \/ plural /\ Sub(t, SubSeq(k, 1, Len(k) - 1))
               \/ ~plural /\ Sub(t, k \o << "s" >>))

\* the plural keyword "as" matches the title "ba", which holds only its singular
C14_Witness ==
    /\ fn_call.fn = "check_keyword_match" /\ fn_ret.done
    /\ fn_call.args = << << "a", "s" >>, << "b", "a" >> >>
    /\ fn_ret.val = TRUE

\* C15: normalise_text is idempotent and defined on every text: normalising its
\* output again changes nothing, the output has no uppercase letter and no
\* subscript digit, and the empty or absent text gives the empty string.
C15_Idempotent ==
    (fn_call.fn = "normalise_text" /\ fn_ret.done) =>
        LET x == fn_call.args[1]
            y == fn_ret.val
        IN  /\ normalise_text(y) = y
            /\ \A i \in DOMAIN y :
                   /\ y[i] \notin { "A", "B", "S" }
                   /\ y[i] \notin { "sub0", "sub1", "sub2", "sub3", "sub4",
                                     "sub5", "sub6", "sub7", "sub8", "sub9" }
            /\ Len(x) = 0 => Len(y) = 0

\* a text with uppercase letters and a subscript digit has been normalised
C15_Witness ==
    /\ fn_call.fn = "normalise_text" /\ fn_ret.done
    /\ fn_call.args[1] = << "A", "sub2", "S" >>
    /\ fn_ret.val = << "a", "2", "s" >>

\* C20: in a run started by the console front end the progress function is the
\* progress_callback of run_search, year_range and selected_publishers are absent,
\* and the search sends its requests without a date filter.
C20_ConsoleBinding ==
    caller = "console" =>
        /\ has_callback
        /\ year_range.kind = "none"
        /\ selected_publishers = << >>
        /\ pc # "type_error"
        /\ search_filter.type # "none" => ~search_filter.dated
=============================================================================
